---------------------------- MODULE Spec2Model ----------------------------
(***************************************************************************)
(* Model of scraping/generate_data.py: the feature-extraction engine that  *)
(* turns an HTML page into a fixed-schema feature record.                  *)
(*                                                                         *)
(* Python strings that the code inspects character by character (attribute *)
(* values, JavaScript sources) are sequences of one-character strings.     *)
(* Names (dictionary keys, catalog entries, token values) are TLA+ strings.*)
(* The two external libraries are collaborators whose results are inputs:  *)
(*   - esprima.parseScript: its outcome (an exception, or a tree and a     *)
(*     token stream) is drawn from bounded sets of well-formed outcomes,   *)
(*     or looked up in ParseScript for the sources a page carries;         *)
(*   - BeautifulSoup/html5lib: a page is given as the parsed document, the *)
(*     list of its elements in document order.                             *)
(***************************************************************************)
EXTENDS Integers, Sequences, FiniteSets, TLC

VARIABLES
    jpc,            \* parse_javascript: position in the function
    jsource,        \* parse_javascript: [length, ok, body, tokens] of the fragment
    jdata,          \* parse_javascript: the dict `data` being filled (or the returned signal)
    hpc,            \* parse_html: position in the function
    hfile,          \* parse_html: the file named by `filename`: [exists, soup]
    javascriptStrings,  \* parse_html: the list of JavaScript fragments found
    data_js,        \* parse_html: the list of the fragments' feature dicts
    hdata,          \* parse_html: the dict `data` being filled (or the returned signal)
    mpc,            \* main: position (the loop it is in, or how it ended)
    mi,             \* main: index of the manifest entry the loop is at
    file_path,      \* main: the local variable file_path
    mdata,          \* main: the list `data` of rows
    menv            \* main: the manifests and the files on disk

jsVars == <<jpc, jsource, jdata>>
htmlVars == <<hpc, hfile, javascriptStrings, data_js, hdata>>
mainVars == <<mpc, mi, file_path, mdata, menv>>
vars == <<jsVars, htmlVars, mainVars>>

-----------------------------------------------------------------------------
(* Bounds of the model *)

\* largest number of entries of randomwalk.json and of xssed.json
MaxBenign == 1
MaxXssed == 2
\* largest number of elements of a page
MaxElements == 2
\* largest number of nodes (maps, lists, scalars) in a syntax-tree body
MaxNodes == 2
\* longest token stream
MaxTokens == 2
\* the nested calls of node_generator the interpreter allows before RecursionError:
\* sys.getrecursionlimit() less the frames of the callers (1000 by default), scaled
\* to the depth of the trees of the model
RecursionLimit == 8

-----------------------------------------------------------------------------
(* Generic helpers *)

Range(s) == {s[i] : i \in 1..Len(s)}

RECURSIVE Concat(_)
\* flattening of a sequence of sequences
Concat(ss) == IF ss = <<>> THEN <<>> ELSE Head(ss) \o Concat(Tail(ss))

RECURSIVE SumSeq(_)
SumSeq(s) == IF s = <<>> THEN 0 ELSE Head(s) + SumSeq(Tail(s))

\* Python's max(...) and min(...) over a non-empty sequence of integers
MaxOf(s) == CHOOSE m \in Range(s) : \A x \in Range(s) : x <= m
MinOf(s) == CHOOSE m \in Range(s) : \A x \in Range(s) : m <= x

\* dict update: the keys of g are set (added or overwritten) in f
Update(f, g) == [k \in (DOMAIN f) \cup (DOMAIN g) |-> IF k \in DOMAIN g THEN g[k] ELSE f[k]]

\* the signals a function gives instead of a dict
None == [signal |-> "None"]
TypeError == [signal |-> "TypeError"]
RecursionError == [signal |-> "RecursionError"]
ValueError == [signal |-> "ValueError"]
IsDict(x) == "signal" \notin DOMAIN x
\* an exception that leaves the function, as opposed to a dict or None
IsRaised(x) == ~IsDict(x) /\ x # None

\* the value of the variables of a function that is not running
JsIdle == jpc = "idle" /\ jsource = None /\ jdata = None
HtmlIdle ==
    /\ hpc = "idle" /\ hfile = None /\ javascriptStrings = <<>>
    /\ data_js = <<>> /\ hdata = None
MainIdle ==
    /\ mpc = "idle" /\ mi = 0 /\ file_path = None /\ mdata = <<>> /\ menv = None

-----------------------------------------------------------------------------
(* Syntax trees: esprima's toDict() output, nested maps, lists and scalars *)

Scalar(v) == [kind |-> "scalar", keys |-> <<>>, kids |-> <<>>, val |-> v]
Dict(keys, kids) == [kind |-> "dict", keys |-> keys, kids |-> kids, val |-> ""]
List(kids) == [kind |-> "list", keys |-> <<>>, kids |-> kids, val |-> ""]

\* `if node:` -- a non-empty dict or list, a truthy scalar
Truthy(node) ==
    IF node.kind = "scalar" THEN node.val # "" ELSE node.kids # <<>>

RECURSIVE Walk(_, _)
\* lines 41-50 in the frame number `depth` of the nested calls: what the generator
\* yields, in order, or the RecursionError of a call that finds no frame left
\* (every call takes a frame, the one on a scalar or an empty node too)
Walk(node, depth) ==
    IF depth > RecursionLimit THEN [raised |-> TRUE, nodes |-> <<>>]
    ELSE IF ~Truthy(node) \/ node.kind = "scalar" THEN [raised |-> FALSE, nodes |-> <<>>]
    ELSE LET sub == [i \in 1..Len(node.kids) |-> Walk(node.kids[i], depth + 1)]
             own == IF node.kind = "dict" THEN <<node>> ELSE <<>>
         IN  [raised |-> \E i \in 1..Len(sub) : sub[i].raised,
              nodes |-> own \o Concat([i \in 1..Len(sub) |-> sub[i].nodes])]

\* node_generator(node) consumed to its end
node_generator(node) == Walk(node, 1)

HasKey(node, k) == \E i \in 1..Len(node.keys) : node.keys[i] = k
\* node[k], for a key the dict has
Item(node, k) == node.kids[CHOOSE i \in 1..Len(node.keys) : node.keys[i] = k]

-----------------------------------------------------------------------------
(* parse_javascript *)

domObjects == <<"windows", "location", "document">>
properties == <<"cookie", "document", "referrer">>
methods == <<"write", "getElementsByTagName", "alert", "eval", "fromCharCode",
             "prompt", "confirm">>

\* the keys 'js_dom_' + i, 'js_prop_' + i, 'js_method_' + i of the catalogs
DomKeys(dom) == {"js_dom_" \o i : i \in Range(dom)}
PropKeys(prop) == {"js_prop_" \o i : i \in Range(prop)}
MethodKeys(meth) == {"js_method_" \o i : i \in Range(meth)}

\* lines 57-68: the dict with every counter at 0
InitJsData(length, dom, prop, meth) ==
    LET d1 == [k \in {"js_length"} |-> length]
        d2 == Update(d1, [k \in DomKeys(dom) |-> 0])
        d3 == Update(d2, [k \in PropKeys(prop) |-> 0])
        d4 == Update(d3, [k \in MethodKeys(meth) |-> 0])
    IN  Update(d4, [k \in {"js_define_function", "js_string_max_length",
                           "js_function_calls"} |-> 0])

\* lines 89-97: the body of the loop over the yielded nodes
SyntacticStep(data, node) ==
    IF ~HasKey(node, "type") THEN data    \* KeyError: continue
    ELSE IF Item(node, "type") \in {Scalar("FunctionDeclaration")}
         THEN [data EXCEPT !["js_define_function"] = @ + 1]
    ELSE IF Item(node, "type") \in {Scalar("CallExpression"), Scalar("FunctionExpression")}
         THEN [data EXCEPT !["js_function_calls"] = @ + 1]
    ELSE data

RECURSIVE SyntacticLoop(_, _)
SyntacticLoop(data, nodes) ==
    IF nodes = <<>> THEN data
    ELSE SyntacticLoop(SyntacticStep(data, Head(nodes)), Tail(nodes))

\* lines 87-97; the RecursionError of the generator is not caught
SyntacticAnalysis(data, body) ==
    LET walk == node_generator(body)
    IN  IF walk.raised THEN RecursionError ELSE SyntacticLoop(data, walk.nodes)

\* a lexical step that tests the three catalogs independently (if, if, if)
LexicalStep_independent(st, token, dom, prop, meth) ==
    IF token.type = "Identifier"
    THEN LET d1 == IF token.value \in Range(dom)
                   THEN [st.data EXCEPT !["js_dom_" \o token.value] = @ + 1] ELSE st.data
             d2 == IF token.value \in Range(prop)
                   THEN [d1 EXCEPT !["js_prop_" \o token.value] = @ + 1] ELSE d1
             d3 == IF token.value \in Range(meth)
                   THEN [d2 EXCEPT !["js_method_" \o token.value] = @ + 1] ELSE d2
         IN  [st EXCEPT !.data = d3]
    ELSE IF token.value = "string" THEN [st EXCEPT !.raised = TRUE]
    ELSE st

\* lines 108-116: the body of the loop over the tokens; st = [data, stringsList, raised]
LexicalStep(st, token, dom, prop, meth) ==
    IF token.type = "Identifier"
    THEN IF token.value \in Range(dom)
         THEN [st EXCEPT !.data["js_dom_" \o token.value] = @ + 1]
         ELSE IF token.value \in Range(prop)
         THEN [st EXCEPT !.data["js_prop_" \o token.value] = @ + 1]
         ELSE IF token.value \in Range(meth)
         THEN [st EXCEPT !.data["js_method_" \o token.value] = @ + 1]
         ELSE st
    ELSE IF token.value = "string"
         \* tokens['value'] indexes the list of tokens with a string
         THEN [st EXCEPT !.raised = TRUE]
    ELSE st

RECURSIVE LexicalLoop(_, _, _, _, _)
LexicalLoop(st, tokens, dom, prop, meth) ==
    IF tokens = <<>> \/ st.raised THEN st
    ELSE LexicalLoop(LexicalStep(st, Head(tokens), dom, prop, meth), Tail(tokens),
                     dom, prop, meth)

\* lines 98-120: the dict returned, or the exception that leaves the function
LexicalAnalysis(data, tokens, dom, prop, meth) ==
    LET st == LexicalLoop([data |-> data, stringsList |-> <<>>, raised |-> FALSE],
                          tokens, dom, prop, meth)
    IN  IF st.raised THEN TypeError
        ELSE IF Len(st.stringsList) > 0
        THEN [st.data EXCEPT !["js_string_max_length"] =
                 MaxOf([i \in 1..Len(st.stringsList) |-> Len(st.stringsList[i])])]
        ELSE st.data

\* parse_javascript on a fragment of the given length whose parse gave `parsed`
AnalyseJs(length, parsed, dom, prop, meth) ==
    IF ~parsed.ok THEN None
    ELSE LET data == SyntacticAnalysis(InitJsData(length, dom, prop, meth), parsed.body)
         IN  IF IsRaised(data) THEN data
             ELSE LexicalAnalysis(data, parsed.tokens, dom, prop, meth)

-----------------------------------------------------------------------------
(* Python strings as sequences of characters *)

\* 'alert(1)'
Src_alert ==
    <<"a", "l", "e", "r", "t", "(", "1", ")">>
\* 'document.cookie'
Src_cookie ==
    <<"d", "o", "c", "u", "m", "e", "n", "t", ".", "c", "o", "o", "k", "i", "e">>
\* 'alert(document.cookie)'
Src_alert_cookie ==
    <<"a", "l", "e", "r", "t", "(", "d", "o", "c", "u", "m", "e", "n", "t", ".", "c",
      "o", "o", "k", "i", "e", ")">>
\* '(function(){})()'
Src_iife ==
    <<"(", "f", "u", "n", "c", "t", "i", "o", "n", "(", ")", "{", "}", ")", "(", ")">>
\* 'function f(){}'
Src_function ==
    <<"f", "u", "n", "c", "t", "i", "o", "n", " ", "f", "(", ")", "{", "}">>
\* '('
Src_open ==
    <<"(">>
\* '\n('
Src_nl_open ==
    <<"\n", "(">>
\* 'javascript:alert(1)'
Val_js_alert ==
    <<"j", "a", "v", "a", "s", "c", "r", "i", "p", "t", ":", "a", "l", "e", "r", "t",
      "(", "1", ")">>
\* ' \n\xa0Java\u017fcr\u0131pt:document.cookie'; a character outside ASCII is
\* written as its code point
Val_ws_JS_cookie ==
    <<" ", "\n", "U+00A0", "J", "a", "v", "a", "U+017F", "c", "r", "U+0131", "p", "t",
      ":", "d", "o", "c", "u", "m", "e", "n", "t", ".", "c", "o", "o", "k", "i", "e">>
\* 'javascript:'
Val_js_only ==
    <<"j", "a", "v", "a", "s", "c", "r", "i", "p", "t", ":">>
\* 'javascript:\n('
Val_js_nl_open ==
    <<"j", "a", "v", "a", "s", "c", "r", "i", "p", "t", ":", "\n", "(">>
\* 'JAVASCRIPT:function f(){}'
Val_JS_function ==
    <<"J", "A", "V", "A", "S", "C", "R", "I", "P", "T", ":", "f", "u", "n", "c", "t",
      "i", "o", "n", " ", "f", "(", ")", "{", "}">>
\* '#'
Val_hash ==
    <<"#">>
\* 'x javascript:alert(1)'
Val_late_js ==
    <<"x", " ", "j", "a", "v", "a", "s", "c", "r", "i", "p", "t", ":", "a", "l", "e",
      "r", "t", "(", "1", ")">>
\* 'x.js'
Val_file ==
    <<"x", ".", "j", "s">>

-----------------------------------------------------------------------------
(* js_protocol *)

\* \s of a str pattern: the Unicode whitespace
IsSpace(c) ==
    c \in {" ", "\t", "\n", "\r", "\f", "U+000B", "U+001C", "U+001D", "U+001E", "U+001F",
           "U+0085", "U+00A0", "U+1680", "U+2000", "U+2001", "U+2002", "U+2003",
           "U+2004", "U+2005", "U+2006", "U+2007", "U+2008", "U+2009", "U+200A",
           "U+2028", "U+2029", "U+202F", "U+205F", "U+3000"}

\* the letter of the scheme a character matches under re.IGNORECASE: its lower
\* case, and for a str pattern also the long s and the dotted and dotless i
Lower(c) ==
    CASE c = "J" -> "j" [] c = "A" -> "a" [] c = "V" -> "v" [] c = "S" -> "s"
      [] c = "C" -> "c" [] c = "R" -> "r" [] c = "I" -> "i" [] c = "P" -> "p"
      [] c = "T" -> "t" [] c = "U+017F" -> "s" [] c \in {"U+0130", "U+0131"} -> "i"
      [] OTHER -> c

Scheme == <<"j", "a", "v", "a", "s", "c", "r", "i", "p", "t", ":">>

\* the number of whitespace characters the string starts with
LeadingSpace(string) ==
    IF \A i \in 1..Len(string) : IsSpace(string[i]) THEN Len(string)
    ELSE (CHOOSE i \in 1..Len(string) :
             ~IsSpace(string[i]) /\ \A j \in 1..(i - 1) : IsSpace(string[j])) - 1

\* re.search(r'^\s*javascript:(.*)', string, IGNORECASE|DOTALL): group(1), or None
\* (matched = FALSE)
js_protocol(string) ==
    LET n == LeadingSpace(string)
    IN  IF /\ Len(string) >= n + Len(Scheme)
           /\ \A k \in 1..Len(Scheme) : Lower(string[n + k]) = Scheme[k]
        THEN [matched |-> TRUE, code |-> SubSeq(string, n + Len(Scheme) + 1, Len(string))]
        ELSE [matched |-> FALSE, code |-> <<>>]

\* `if javascript:` -- neither None nor the empty string
TruthyCode(javascript) == javascript.matched /\ javascript.code # <<>>

-----------------------------------------------------------------------------
(* Outcomes of esprima.parseScript(string, tolerant, tokens).toDict()        *)

Tok(t, v) == [type |-> t, value |-> v]
\* the tree and the tokens of a source esprima parses
Parsed(body, tokens) == [ok |-> TRUE, body |-> body, tokens |-> tokens]
\* a fatal parser error or a RecursionError
Failed == [ok |-> FALSE, body |-> List(<<>>), tokens |-> <<>>]

Node(type, keys, kids) == Dict(<<"type">> \o keys, <<Scalar(type)>> \o kids)
Identifier(name) == Node("Identifier", <<"name">>, <<Scalar(name)>>)
Statement(expression) == Node("ExpressionStatement", <<"expression">>, <<expression>>)
MemberExpression(object, property) ==
    Node("MemberExpression", <<"computed", "object", "property">>,
         <<Scalar(""), Identifier(object), Identifier(property)>>)
Function(type, id) ==
    Node(type, <<"id", "params", "body", "generator", "expression", "isAsync">>,
         <<id, List(<<>>), Node("BlockStatement", <<"body">>, <<List(<<>>)>>),
           Scalar(""), Scalar(""), Scalar("")>>)

BinaryExpression(left, right) ==
    Node("BinaryExpression", <<"operator", "left", "right">>, <<Scalar("+"), left, right>>)

\* 'a+a+...+a' with n operators, its left-deep tree and its tokens
SumSource(n) == [i \in 1..(2 * n + 1) |-> IF i % 2 = 1 THEN "a" ELSE "+"]
RECURSIVE Sum(_)
Sum(n) == IF n = 0 THEN Identifier("a") ELSE BinaryExpression(Sum(n - 1), Identifier("a"))
SumTokens(n) ==
    [i \in 1..(2 * n + 1) |->
        IF i % 2 = 1 THEN Tok("Identifier", "a") ELSE Tok("Punctuator", "+")]
IsSum(string) ==
    /\ Len(string) >= 3
    /\ string = SumSource((Len(string) - 1) \div 2)

\* esprima on the sources of the model
ParseScript(string) ==
    CASE string = <<>> -> Parsed(List(<<>>), <<>>)
      [] string = Src_alert ->
            Parsed(List(<<Statement(Node("CallExpression", <<"callee", "arguments">>,
                              <<Identifier("alert"),
                                List(<<Node("Literal", <<"value", "raw">>,
                                            <<Scalar("1"), Scalar("1")>>)>>)>>))>>),
                   <<Tok("Identifier", "alert"), Tok("Punctuator", "("),
                     Tok("Numeric", "1"), Tok("Punctuator", ")")>>)
      [] string = Src_cookie ->
            Parsed(List(<<Statement(MemberExpression("document", "cookie"))>>),
                   <<Tok("Identifier", "document"), Tok("Punctuator", "."),
                     Tok("Identifier", "cookie")>>)
      [] string = Src_alert_cookie ->
            Parsed(List(<<Statement(Node("CallExpression", <<"callee", "arguments">>,
                              <<Identifier("alert"),
                                List(<<MemberExpression("document", "cookie")>>)>>))>>),
                   <<Tok("Identifier", "alert"), Tok("Punctuator", "("),
                     Tok("Identifier", "document"), Tok("Punctuator", "."),
                     Tok("Identifier", "cookie"), Tok("Punctuator", ")")>>)
      [] string = Src_function ->
            Parsed(List(<<Function("FunctionDeclaration", Identifier("f"))>>),
                   <<Tok("Keyword", "function"), Tok("Identifier", "f"),
                     Tok("Punctuator", "("), Tok("Punctuator", ")"),
                     Tok("Punctuator", "{"), Tok("Punctuator", "}")>>)
      [] string = Src_iife ->
            Parsed(List(<<Statement(Node("CallExpression", <<"callee", "arguments">>,
                              <<Function("FunctionExpression", Scalar("")), List(<<>>)>>))>>),
                   <<Tok("Punctuator", "("), Tok("Keyword", "function"),
                     Tok("Punctuator", "("), Tok("Punctuator", ")"),
                     Tok("Punctuator", "{"), Tok("Punctuator", "}"),
                     Tok("Punctuator", ")"), Tok("Punctuator", "("),
                     Tok("Punctuator", ")")>>)
      [] string \in {Src_open, Src_nl_open} -> Failed
      [] IsSum(string) ->
            Parsed(List(<<Statement(Sum((Len(string) - 1) \div 2))>>),
                   SumTokens((Len(string) - 1) \div 2))

\* parse_javascript(string, domObjects, properties, methods)
parse_javascript(string, dom, prop, meth) ==
    AnalyseJs(Len(string), ParseScript(string), dom, prop, meth)

-----------------------------------------------------------------------------
(* The fragments of the model: a source length and what esprima made of it *)

\* values a `type` field takes
TypeNames == {"FunctionDeclaration", "CallExpression", "FunctionExpression", "Identifier"}
\* scalars: a falsy one (None, '', 0, False) and a truthy string
ScalarVals == {"", "CallExpression"}

ChildKeys(n) == [i \in 1..n |-> "k" \o ToString(i)]

RECURSIVE Trees(_), Forests(_)
\* the trees of exactly n nodes; a dict's `type` field comes with the dict
Trees(n) ==
    (IF n = 1 THEN {Scalar(v) : v \in ScalarVals} ELSE {})
    \cup {List(f) : f \in Forests(n - 1)}
    \cup {Dict(ChildKeys(Len(f)), f) : f \in Forests(n - 1)}
    \cup {Dict(<<"type">> \o ChildKeys(Len(f)), <<Scalar(t)>> \o f) :
             t \in TypeNames, f \in Forests(n - 1)}

\* the sequences of trees of n nodes in all
Forests(n) ==
    IF n = 0 THEN {<<>>}
    ELSE UNION {{<<t>> \o f : t \in Trees(k), f \in Forests(n - k)} : k \in 1..n}

\* esprimaObject['body'] is a list of statements
Bodies == {List(f) : f \in UNION {Forests(n) : n \in 0..MaxNodes}}

\* tokens as esprima gives them: the value of a String token carries its quotes
TokenKinds ==
    {Tok("Identifier", v) : v \in {"document", "cookie", "alert", "string", "x"}}
    \cup {Tok("String", v) : v \in {"''", "'abc'"}}
    \cup {Tok("Punctuator", "(")}

TokenStreams == UNION {[1..n -> TokenKinds] : n \in 0..MaxTokens}

\* length of a source made of the tokens, one space between two
SourceLen(tokens) ==
    SumSeq([i \in 1..Len(tokens) |-> Len(tokens[i].value)])
        + (IF Len(tokens) > 1 THEN Len(tokens) - 1 ELSE 0)

Fragment(length, parsed) ==
    [length |-> length, ok |-> parsed.ok, body |-> parsed.body, tokens |-> parsed.tokens]

\* the walk of 'a+...+a' with n operators nests n + 4 calls: the list of
\* statements, the statement, the n sums, the leftmost identifier and its name
DeepestSum == RecursionLimit - 3

KnownSources ==
    {<<>>, Src_alert, Src_cookie, Src_alert_cookie, Src_function, Src_iife,
     Src_open, Src_nl_open}
    \cup {SumSource(n) : n \in 1..DeepestSum}

\* every known source; every small body, without tokens and with those of
\* alert(document.cookie); every short token stream, without body and with that
\* of alert(document.cookie)
JsSources ==
    {Fragment(Len(src), ParseScript(src)) : src \in KnownSources}
    \cup {Fragment(SourceLen(t), Parsed(b, t)) :
             b \in Bodies, t \in {<<>>, ParseScript(Src_alert_cookie).tokens}}
    \cup {Fragment(SourceLen(t), Parsed(b, t)) :
             b \in {List(<<>>), ParseScript(Src_alert_cookie).body}, t \in TokenStreams}

-----------------------------------------------------------------------------
(* parse_javascript as a process: parse, syntactic pass, lexical pass *)

JsInit ==
    /\ jsource \in JsSources
    /\ jdata = InitJsData(jsource.length, domObjects, properties, methods)
    /\ jpc = "parse"
    /\ HtmlIdle
    /\ MainIdle

\* lines 76-82: the parser raised
JsParseError ==
    /\ jpc = "parse"
    /\ ~jsource.ok
    /\ jdata' = None
    /\ jpc' = "returned"
    /\ UNCHANGED <<jsource, htmlVars, mainVars>>

\* lines 87-97; a RecursionError of node_generator leaves the function
JsSyntactic ==
    /\ jpc = "parse"
    /\ jsource.ok
    /\ jdata' = SyntacticAnalysis(jdata, jsource.body)
    /\ jpc' = IF IsRaised(jdata') THEN "raised" ELSE "lexical"
    /\ UNCHANGED <<jsource, htmlVars, mainVars>>

\* lines 98-120
JsLexical ==
    /\ jpc = "lexical"
    /\ jdata' = LexicalAnalysis(jdata, jsource.tokens, domObjects, properties, methods)
    /\ jpc' = IF IsRaised(jdata') THEN "raised" ELSE "returned"
    /\ UNCHANGED <<jsource, htmlVars, mainVars>>

JsNext == JsParseError \/ JsSyntactic \/ JsLexical

SpecJs == JsInit /\ [][JsNext]_vars

-----------------------------------------------------------------------------
(* Properties of parse_javascript (SpecJs) *)

RECURSIVE Paths(_), NodeAt(_, _)
\* the positions in a tree: index sequences from the root
Paths(node) ==
    {<<>>} \cup UNION {{<<i>> \o p : p \in Paths(node.kids[i])} : i \in 1..Len(node.kids)}
NodeAt(node, p) == IF p = <<>> THEN node ELSE NodeAt(node.kids[Head(p)], Tail(p))

\* the positions of the non-empty maps of a tree
MapPaths(tree) ==
    {p \in Paths(tree) : NodeAt(tree, p).kind = "dict" /\ NodeAt(tree, p).kids # <<>>}
\* those whose `type` field is one of the names
TypedPaths(tree, names) ==
    {p \in MapPaths(tree) : /\ HasKey(NodeAt(tree, p), "type")
                            /\ Item(NodeAt(tree, p), "type") \in {Scalar(n) : n \in names}}
Occurrences(seq, v) == Cardinality({i \in 1..Len(seq) : seq[i] = v})

JsAnalysed == jpc = "returned" /\ jsource.ok /\ IsDict(jdata)

\* C10: on every finite syntax tree the syntactic pass ends without an error and
\* visits every non-empty map reachable from the body exactly once;
\* js_define_function is the number of those maps whose type is FunctionDeclaration,
\* js_function_calls the number whose type is CallExpression or FunctionExpression;
\* untyped maps, empty maps, lists and scalars count nothing.
C10_WalkCounts ==
    (jpc \in {"lexical", "returned", "raised"} /\ jsource.ok) =>
        LET walk == node_generator(jsource.body)
        IN  /\ ~walk.raised
            /\ IsDict(jdata)
            /\ Len(walk.nodes) = Cardinality(MapPaths(jsource.body))
            /\ \A p \in MapPaths(jsource.body) :
                  Occurrences(walk.nodes, NodeAt(jsource.body, p)) =
                  Cardinality({q \in MapPaths(jsource.body) :
                                  NodeAt(jsource.body, q) = NodeAt(jsource.body, p)})
            /\ jdata["js_define_function"] =
                  Cardinality(TypedPaths(jsource.body, {"FunctionDeclaration"}))
            /\ jdata["js_function_calls"] =
                  Cardinality(TypedPaths(jsource.body, {"CallExpression", "FunctionExpression"}))

IdentifierCount(tokens, names) ==
    Cardinality({i \in 1..Len(tokens) :
                    tokens[i].type = "Identifier" /\ tokens[i].value \in names})
CounterKeys ==
    [i \in 1..Len(domObjects) |-> "js_dom_" \o domObjects[i]]
    \o [i \in 1..Len(properties) |-> "js_prop_" \o properties[i]]
    \o [i \in 1..Len(methods) |-> "js_method_" \o methods[i]]
AllNames == Range(domObjects) \cup Range(properties) \cup Range(methods)

\* C4: an Identifier token increments at most one counter, chosen by the ordered test
\* domObjects, properties, methods: a name in both domObjects and properties counts
\* under js_dom_ only, and the counters sum to no more than the Identifier tokens.
C4_OneBucketPerIdentifier ==
    JsAnalysed =>
        /\ \A n \in Range(domObjects) :
              jdata["js_dom_" \o n] = IdentifierCount(jsource.tokens, {n})
        /\ \A n \in Range(properties) :
              jdata["js_prop_" \o n] =
                 IF n \in Range(domObjects) THEN 0 ELSE IdentifierCount(jsource.tokens, {n})
        /\ \A n \in Range(methods) :
              jdata["js_method_" \o n] =
                 IF n \in Range(domObjects) \cup Range(properties) THEN 0
                 ELSE IdentifierCount(jsource.tokens, {n})
        /\ SumSeq([i \in 1..Len(CounterKeys) |-> jdata[CounterKeys[i]]])
              <= IdentifierCount(jsource.tokens, AllNames)

\* `document`, in both catalogs, was met together with a name of properties alone
C4_Witness ==
    /\ JsAnalysed
    /\ jdata["js_dom_document"] >= 1
    /\ jdata["js_prop_cookie"] >= 1

StringTokenLengths(tokens) ==
    {Len(tokens[i].value) : i \in {j \in 1..Len(tokens) : tokens[j].type = "String"}}
LongestStringToken(tokens) ==
    IF StringTokenLengths(tokens) = {} THEN 0
    ELSE CHOOSE m \in StringTokenLengths(tokens) : \A x \in StringTokenLengths(tokens) : x <= m

\* C7: js_string_max_length is the length of the longest string-literal token value,
\* and 0 only when the token stream has no string-literal token.
C7_StringMaxLength ==
    JsAnalysed => jdata["js_string_max_length"] = LongestStringToken(jsource.tokens)

-----------------------------------------------------------------------------
(* The parsed document: BeautifulSoup(raw_html, "html5lib") *)

\* an element: its tag name, its attributes in source order as <<name, value>>
\* pairs, and tag.string (None unless the element has a single text child)
El(name, attrs, string) == [name |-> name, attrs |-> attrs, string |-> string]
NoString == [none |-> TRUE, text |-> <<>>]
Text(t) == [none |-> FALSE, text |-> t]

HasAttr(e, a) == \E i \in 1..Len(e.attrs) : e.attrs[i][1] = a
\* tag[a]
Attr(e, a) == e.attrs[CHOOSE i \in 1..Len(e.attrs) : e.attrs[i][1] = a][2]

\* soup.find_all(name), in document order
FindAllTag(soup, name) == SelectSeq(soup, LAMBDA e : e.name = name)
\* soup.find_all(attrs={a: True})
FindAllAttr(soup, a) == SelectSeq(soup, LAMBDA e : HasAttr(e, a))
\* soup.find_all(name, attrs={a: True}) and soup.find_all(name, a=False)
FindAllWith(soup, name, a) == SelectSeq(soup, LAMBDA e : e.name = name /\ HasAttr(e, a))
FindAllWithout(soup, name, a) == SelectSeq(soup, LAMBDA e : e.name = name /\ ~HasAttr(e, a))

-----------------------------------------------------------------------------
(* parse_html *)

tags == <<"script", "iframe", "meta", "div", "applet", "object", "embed", "link", "svg">>
attrs == <<"href", "http-equiv", "lowsrc">>
eventHandlersAttr ==
    <<"onabort", "onactivate", "onafterprint", "onafterupdate", "onbeforeactivate",
      "onbeforecopy", "onbeforecut", "onbeforedeactivate", "onbeforeeditfocus",
      "onbeforepaste", "onbeforeprint", "onbeforeunload", "onbeforeupdate", "onblur",
      "onbounce", "oncellchange", "onchange", "onclick", "oncontextmenu",
      "oncontrolselect", "oncopy", "oncut", "ondataavailable", "ondatasetchanged",
      "ondatasetcomplete", "ondblclick", "ondeactivate", "ondrag", "ondragend",
      "ondragenter", "ondragleave", "ondragover", "ondragstart", "ondrop", "onerror",
      "onerrorupdate", "onfilterchange", "onfinish", "onfocus", "onfocusin",
      "onfocusout", "onhashchange", "onhelp", "oninput", "onkeydown", "onkeypress",
      "onkeyup", "onload", "onlosecapture", "onmessage", "onmousedown", "onmouseenter",
      "onmouseleave", "onmousemove", "onmouseout", "onmouseover", "onmouseup",
      "onmousewheel", "onmove", "onmoveend", "onmovestart", "onoffline", "ononline",
      "onpaste", "onpropertychange", "onreadystatechange", "onreset", "onresize",
      "onresizeend", "onresizestart", "onrowenter", "onrowexit", "onrowsdelete",
      "onrowsinserted", "onscroll", "onsearch", "onselect", "onselectionchange",
      "onselectstart", "onstart", "onstop", "onsubmit", "onunload">>

\* the keys 'html_tag_' + tag, 'html_attr_' + attr, 'html_event_' + event, and
\* the catalog name each is made from
TagKeys == {"html_tag_" \o t : t \in Range(tags)}
AttrKeys == {"html_attr_" \o a : a \in Range(attrs)}
EventKeys == {"html_event_" \o e : e \in Range(eventHandlersAttr)}
TagOfKey == [k \in TagKeys |-> CHOOSE t \in Range(tags) : k = "html_tag_" \o t]
AttrOfKey == [k \in AttrKeys |-> CHOOSE a \in Range(attrs) : k = "html_attr_" \o a]
EventOfKey ==
    [k \in EventKeys |-> CHOOSE e \in Range(eventHandlersAttr) : k = "html_event_" \o e]

\* lines 159-191: the dict with every count at 0 and the js_file flag
HtmlInitData(soup) ==
    LET d1 == [k \in TagKeys |-> 0]
        d2 == Update(d1, [k \in AttrKeys |-> 0])
        d3 == Update(d2, [k \in EventKeys |-> 0])
    IN  Update(d3, [k \in {"js_file"} |-> FindAllWith(soup, "script", "src") # <<>>])

\* lines 198-204: the text of every <script> without src that has a string
ScriptFragments(soup) ==
    LET found == FindAllWithout(soup, "script", "src")
        withString == SelectSeq(found, LAMBDA e : ~e.string.none)
    IN  [i \in 1..Len(withString) |-> withString[i].string.text]

\* lines 206-209 (and 211-214, 217-220, 223-226): the code after javascript: in
\* attribute a of every <name> element, when it is truthy
ProtocolFragments(soup, name, a) ==
    LET found == FindAllWith(soup, name, a)
        kept == SelectSeq(found, LAMBDA e : TruthyCode(js_protocol(Attr(e, a))))
    IN  [i \in 1..Len(kept) |-> js_protocol(Attr(kept[i], a)).code]

\* lines 196-226: vectors 1 to 5
JsVectors(soup) ==
    ScriptFragments(soup)
    \o ProtocolFragments(soup, "a", "href")
    \o ProtocolFragments(soup, "form", "action")
    \o ProtocolFragments(soup, "iframe", "src")
    \o ProtocolFragments(soup, "frame", "src")

\* lines 228-237: the counts of tags, attributes and event handlers
HtmlCounts(data, soup) ==
    LET d1 == Update(data, [k \in TagKeys |-> Len(FindAllTag(soup, TagOfKey[k]))])
        d2 == Update(d1, [k \in AttrKeys |-> Len(FindAllAttr(soup, AttrOfKey[k]))])
    IN  Update(d2, [k \in EventKeys |-> Len(FindAllAttr(soup, EventOfKey[k]))])

\* event handlers whose empty values are not taken as code
EventFragments_nonempty(soup) ==
    Concat([n \in 1..Len(eventHandlersAttr) |->
        LET event == eventHandlersAttr[n]
            event_tags == SelectSeq(FindAllAttr(soup, event), LAMBDA e : Attr(e, event) # <<>>)
        IN  [i \in 1..Len(event_tags) |-> Attr(event_tags[i], event)]])

\* lines 235-240: vector 6, the value of every event-handler attribute, handler
\* by handler
EventFragments(soup) ==
    Concat([n \in 1..Len(eventHandlersAttr) |->
        LET event == eventHandlersAttr[n]
            event_tags == FindAllAttr(soup, event)
        IN  [i \in 1..Len(event_tags) |-> Attr(event_tags[i], event)]])

\* lines 247-250: the exception of the first fragment whose analysis raises one, which
\* parse_html does not catch; None when no analysis raises
FragmentError(strings) ==
    LET all == [i \in 1..Len(strings) |->
                   parse_javascript(strings[i], domObjects, properties, methods)]
        raised == SelectSeq(all, LAMBDA d : IsRaised(d))
    IN  IF raised = <<>> THEN None ELSE Head(raised)

\* lines 246-252: the dicts of the fragments esprima parsed
ParseFragments(strings) ==
    LET all == [i \in 1..Len(strings) |->
                   parse_javascript(strings[i], domObjects, properties, methods)]
    IN  SelectSeq(all, LAMBDA d : d # None)

\* a page without JavaScript is left without a placeholder
WithPlaceholder_never(records) == records

\* lines 256-261: the record of the empty string stands in for an empty list
WithPlaceholder(records) ==
    IF records = <<>>
    THEN <<parse_javascript(<<>>, domObjects, properties, methods)>>
    ELSE records

Column(records, key) == [i \in 1..Len(records) |-> records[i][key]]

\* an aggregation whose js_min_length takes the longest fragment
JsFeatures_max_length(records) ==
    LET d1 == [k \in DomKeys(domObjects) |-> MaxOf(Column(records, k))]
        d2 == Update(d1, [k \in PropKeys(properties) |-> MaxOf(Column(records, k))])
        d3 == Update(d2, [k \in MethodKeys(methods) |-> MaxOf(Column(records, k))])
    IN  Update(d3, [js_min_length |-> MaxOf(Column(records, "js_length")),
                    js_min_define_function |-> MinOf(Column(records, "js_define_function")),
                    js_min_function_calls |-> MinOf(Column(records, "js_function_calls")),
                    js_string_max_length |-> MaxOf(Column(records, "js_string_max_length"))])

\* lines 262-273: the max and min reductions over a non-empty list of records
JsFeatures(records) ==
    LET d1 == [k \in DomKeys(domObjects) |-> MaxOf(Column(records, k))]
        d2 == Update(d1, [k \in PropKeys(properties) |-> MaxOf(Column(records, k))])
        d3 == Update(d2, [k \in MethodKeys(methods) |-> MaxOf(Column(records, k))])
    IN  Update(d3, [js_min_length |-> MinOf(Column(records, "js_length")),
                    js_min_define_function |-> MinOf(Column(records, "js_define_function")),
                    js_min_function_calls |-> MinOf(Column(records, "js_function_calls")),
                    js_string_max_length |-> MaxOf(Column(records, "js_string_max_length"))])

\* an aggregation that gives a page without JavaScript no JavaScript features
Aggregate_skip_empty(data, records, length) ==
    IF records = <<>> THEN Update(data, [html_length |-> length])
    ELSE Update(Update(data, JsFeatures(records)), [html_length |-> length])

\* lines 256-277: max() and min() of an empty sequence raise ValueError
Aggregate(data, records, length) ==
    IF WithPlaceholder(records) = <<>> THEN ValueError
    ELSE Update(Update(data, JsFeatures(WithPlaceholder(records))), [html_length |-> length])

-----------------------------------------------------------------------------
(* The pages of the model *)

ElementKinds ==
    { El("script", <<<<"src", Val_file>>>>, NoString),
      El("script", <<>>, Text(Src_alert)),
      El("script", <<>>, Text(Src_function)),
      El("script", <<>>, Text(Src_open)),
      El("script", <<>>, Text(SumSource(DeepestSum))),
      El("script", <<>>, NoString),
      El("a", <<<<"href", Val_js_alert>>>>, NoString),
      El("a", <<<<"href", Val_ws_JS_cookie>>>>, NoString),
      El("a", <<<<"href", Val_js_only>>>>, NoString),
      El("a", <<<<"href", Val_late_js>>, <<"onclick", <<>>>>>>, NoString),
      El("form", <<<<"action", Val_js_nl_open>>>>, NoString),
      El("iframe", <<<<"src", Val_js_alert>>>>, NoString),
      El("frame", <<<<"src", Val_JS_function>>>>, NoString),
      El("div", <<<<"onclick", Src_cookie>>>>, NoString),
      El("img", <<<<"onload", <<>>>>, <<"onerror", Src_open>>, <<"onclick", Src_alert>>>>,
         NoString),
      El("link", <<<<"href", Val_hash>>>>, NoString) }

HasFrame(soup) == \E i \in 1..Len(soup) : soup[i].name = "frame"

\* html5lib keeps a <frame> only inside a <frameset>: such a document has no body
\* content, and its <script> and <link> elements come before the frameset
WellFormed(soup) ==
    HasFrame(soup) =>
        /\ \A i \in 1..Len(soup) : soup[i].name \in {"frame", "script", "link"}
        /\ \A i, j \in 1..Len(soup) :
              (soup[i].name = "frame" /\ soup[j].name # "frame") => j < i

Soups == {p \in UNION {[1..n -> ElementKinds] : n \in 0..MaxElements} : WellFormed(p)}

\* len(raw_html) of the markup <name a="v">string</name> of every element, the
\* frames inside <frameset></frameset>
RawLength(soup) ==
    SumSeq([i \in 1..Len(soup) |->
        2 * Len(soup[i].name) + 5 + Len(soup[i].string.text)
        + SumSeq([j \in 1..Len(soup[i].attrs) |->
                     Len(soup[i].attrs[j][1]) + Len(soup[i].attrs[j][2]) + 4])])
    + (IF HasFrame(soup) THEN Len("<frameset>") + Len("</frameset>") ELSE 0)

HtmlFile(soup) == [exists |-> TRUE, soup |-> soup]
Missing == [exists |-> FALSE, soup |-> <<>>]
HtmlFiles == {HtmlFile(p) : p \in Soups} \cup {Missing}

\* parse_html(filename) as a whole
parse_html(file) ==
    IF ~file.exists THEN None
    ELSE LET strings == JsVectors(file.soup) \o EventFragments(file.soup)
         IN  IF IsRaised(FragmentError(strings)) THEN FragmentError(strings)
             ELSE Aggregate(HtmlCounts(HtmlInitData(file.soup), file.soup),
                            ParseFragments(strings), RawLength(file.soup))

-----------------------------------------------------------------------------
(* parse_html as a process: open, extract, parse the fragments, aggregate *)

HtmlInit ==
    /\ hfile \in HtmlFiles
    /\ hpc = "open"
    /\ javascriptStrings = <<>>
    /\ data_js = <<>>
    /\ hdata = None
    /\ JsIdle
    /\ MainIdle

\* lines 149-156: FileNotFoundError
HtmlNotFound ==
    /\ hpc = "open"
    /\ ~hfile.exists
    /\ hdata' = None
    /\ hpc' = "returned"
    /\ UNCHANGED <<hfile, javascriptStrings, data_js, jsVars, mainVars>>

\* lines 157-240
HtmlExtract ==
    /\ hpc = "open"
    /\ hfile.exists
    /\ hdata' = HtmlCounts(HtmlInitData(hfile.soup), hfile.soup)
    /\ javascriptStrings' = JsVectors(hfile.soup) \o EventFragments(hfile.soup)
    /\ hpc' = "extracted"
    /\ UNCHANGED <<hfile, data_js, jsVars, mainVars>>

\* lines 241-252; an exception of parse_javascript other than the caught ones
\* leaves parse_html
HtmlParseJs ==
    /\ hpc = "extracted"
    /\ IF IsRaised(FragmentError(javascriptStrings))
       THEN hpc' = "raised" /\ hdata' = FragmentError(javascriptStrings) /\ UNCHANGED data_js
       ELSE hpc' = "parsed" /\ data_js' = ParseFragments(javascriptStrings) /\ UNCHANGED hdata
    /\ UNCHANGED <<hfile, javascriptStrings, jsVars, mainVars>>

\* lines 253-277
HtmlAggregate ==
    /\ hpc = "parsed"
    /\ hdata' = Aggregate(hdata, data_js, RawLength(hfile.soup))
    /\ data_js' = WithPlaceholder(data_js)
    /\ hpc' = IF hdata' = ValueError THEN "raised" ELSE "returned"
    /\ UNCHANGED <<hfile, javascriptStrings, jsVars, mainVars>>

HtmlNext == HtmlNotFound \/ HtmlExtract \/ HtmlParseJs \/ HtmlAggregate

SpecHtml == HtmlInit /\ [][HtmlNext]_vars

-----------------------------------------------------------------------------
(* Properties of parse_html (SpecHtml) *)

JsFeatureKeys ==
    {"js_dom_" \o i : i \in Range(domObjects)}
    \cup {"js_prop_" \o i : i \in Range(properties)}
    \cup {"js_method_" \o i : i \in Range(methods)}
    \cup {"js_min_length", "js_min_define_function", "js_min_function_calls",
          "js_string_max_length"}

FeatureKeys ==
    {"html_tag_" \o tags[i] : i \in 1..Len(tags)}
    \cup {"html_attr_" \o attrs[i] : i \in 1..Len(attrs)}
    \cup {"html_event_" \o eventHandlersAttr[i] : i \in 1..Len(eventHandlersAttr)}
    \cup {"js_file", "html_length"}
    \cup JsFeatureKeys

\* parse_html has left the function for a file that exists
HtmlLeft == hfile.exists /\ hpc \in {"returned", "raised"}

\* the analysis of no fragment of the page raises an exception
NoneRaises == ~IsRaised(FragmentError(javascriptStrings))

\* C1: every record parse_html returns has the same key set, the catalog-derived one,
\* whatever the page holds; and it returns one for every file that exists, unless the
\* analysis of a fragment raises.
C1_SchemaStable ==
    /\ (hfile.exists /\ hpc = "returned") => (IsDict(hdata) /\ DOMAIN hdata = FeatureKeys)
    /\ (HtmlLeft /\ NoneRaises) => hpc = "returned"

\* a page with an external script, a parsed fragment and a fragment that failed
C1_Witness ==
    /\ hpc = "returned" /\ hfile.exists /\ IsDict(hdata)
    /\ hdata["js_file"]
    /\ \E i \in 1..Len(javascriptStrings) : ParseScript(javascriptStrings[i]).ok
    /\ \E i \in 1..Len(javascriptStrings) : ~ParseScript(javascriptStrings[i]).ok

ZeroRecord == parse_javascript(<<>>, domObjects, properties, methods)

\* the records of the fragments whose analysis gives one, in order
Analysed(strings) ==
    SelectSeq([i \in 1..Len(strings) |->
                  parse_javascript(strings[i], domObjects, properties, methods)],
              LAMBDA d : IsDict(d))
\* the page has no fragment, or the parse of every fragment failed
AllFailed(strings) ==
    \A i \in 1..Len(strings) :
        parse_javascript(strings[i], domObjects, properties, methods) = None

\* C2: when no fragment was analysed with success (no vector, or every fragment failed
\* to parse), parse_html returns a record whose JavaScript features are those of the
\* single record of the empty string, of which every counter is 0.
C2_EmptyListIsEmptyString ==
    (HtmlLeft /\ AllFailed(javascriptStrings)) =>
        /\ IsDict(hdata)
        /\ data_js = <<ZeroRecord>>
        /\ \A k \in DOMAIN ZeroRecord : ZeroRecord[k] = 0
        /\ \A k \in JsFeatureKeys :
              hdata[k] = JsFeatures(<<ZeroRecord>>)[k] /\ hdata[k] = 0

\* a page of which every fragment failed to parse
C2_Witness ==
    /\ hpc = "returned" /\ hfile.exists
    /\ javascriptStrings # <<>>
    /\ AllFailed(javascriptStrings)
    /\ IsDict(hdata) /\ hdata["js_min_length"] = 0

MinKeys == {"js_min_length", "js_min_define_function", "js_min_function_calls"}
\* the page-level features of a list of records handed to the aggregation
PageJs(records) == JsFeatures(WithPlaceholder(records))
Prefix(seq, n) == SubSeq(seq, 1, n)

\* C3: for every list L of records, the empty one included, and every further record
\* r, the three minimum-based features over L followed by r are at most those over L.
C3_MinNonIncreasing ==
    (hpc \in {"parsed", "returned"}) =>
        \A n \in 0..(Len(data_js) - 1) : \A k \in MinKeys :
            PageJs(Prefix(data_js, n + 1))[k] <= PageJs(Prefix(data_js, n))[k]

\* C3 amended: the same for every non-empty list L.
C3_MinNonIncreasingNonEmpty ==
    (hpc \in {"parsed", "returned"}) =>
        \A n \in 1..(Len(data_js) - 1) : \A k \in MinKeys :
            PageJs(Prefix(data_js, n + 1))[k] <= PageJs(Prefix(data_js, n))[k]

\* a second record shorter than the first lowered js_min_length
C3_Witness ==
    /\ hpc = "returned" /\ IsDict(hdata)
    /\ Len(data_js) >= 2
    /\ data_js[2]["js_length"] < data_js[1]["js_length"]
    /\ hdata["js_min_length"] = data_js[2]["js_length"]

\* C5: a fragment whose analysis fails, on a fatal parser error or on recursion
\* exhaustion, is left out, not zero-filled: for every page with at least one fragment
\* analysed with success, parse_html returns a record, and the page's JavaScript
\* features are the reduction over exactly the successful fragments' records.
C5_FailedFragmentsExcluded ==
    (HtmlLeft /\ Analysed(javascriptStrings) # <<>>) =>
        /\ IsDict(hdata)
        /\ data_js = Analysed(javascriptStrings)
        /\ \A k \in JsFeatureKeys : hdata[k] = JsFeatures(Analysed(javascriptStrings))[k]

\* one fragment, the captured code, for every value that matches the pattern
MatchedCodes(soup, name, a) ==
    LET found == FindAllWith(soup, name, a)
        kept == SelectSeq(found, LAMBDA e : js_protocol(Attr(e, a)).matched)
    IN  [i \in 1..Len(kept) |-> js_protocol(Attr(kept[i], a)).code]

\* C8: every <a href>, <form action>, <iframe src>, <frame src> value that matches the
\* pseudo-protocol pattern, with any code including none, gives exactly one fragment,
\* the captured code; a value that does not match gives none.
C8_OneFragmentPerMatch ==
    (hfile.exists /\ hpc \in {"extracted", "parsed", "returned"}) =>
        javascriptStrings =
            ScriptFragments(hfile.soup)
            \o MatchedCodes(hfile.soup, "a", "href")
            \o MatchedCodes(hfile.soup, "form", "action")
            \o MatchedCodes(hfile.soup, "iframe", "src")
            \o MatchedCodes(hfile.soup, "frame", "src")
            \o EventFragments(hfile.soup)

\* the (element, handler attribute) pairs of a page
HandlerPairs(soup) ==
    {pr \in (1..Len(soup)) \X Range(eventHandlersAttr) : HasAttr(soup[pr[1]], pr[2])}

\* C9: every (element, handler attribute) pair gives one fragment, the attribute's
\* value untested (the empty string too); their number is the sum of the html_event_
\* counts, and they come after all script and pseudo-protocol fragments.
C9_EventFragments ==
    (hfile.exists /\ hpc \in {"extracted", "parsed", "returned"}) =>
        LET soup == hfile.soup
            n == SumSeq([i \in 1..Len(eventHandlersAttr) |->
                            hdata["html_event_" \o eventHandlersAttr[i]]])
            total == Len(javascriptStrings)
            last == SubSeq(javascriptStrings, total - n + 1, total)
        IN  /\ n = Cardinality(HandlerPairs(soup))
            /\ n <= total
            /\ SubSeq(javascriptStrings, 1, total - n) = JsVectors(soup)
            /\ \A pr \in HandlerPairs(soup) :
                  Occurrences(last, Attr(soup[pr[1]], pr[2])) =
                  Cardinality({q \in HandlerPairs(soup) :
                                  Attr(soup[q[1]], q[2]) = Attr(soup[pr[1]], pr[2])})

\* an empty handler on the first element comes after the script of the second
C9_Witness ==
    /\ hpc = "returned" /\ hfile.exists
    /\ Len(hfile.soup) = 2
    /\ HasAttr(hfile.soup[1], "onclick") /\ Attr(hfile.soup[1], "onclick") = <<>>
    /\ hfile.soup[2].name = "script"
    /\ javascriptStrings = <<Src_alert, <<>>>>

-----------------------------------------------------------------------------
(* main *)

\* 'html/randomsample/subsample/'
path_randomwalk ==
    <<"h", "t", "m", "l", "/", "r", "a", "n", "d", "o", "m", "s", "a", "m", "p", "l",
      "e", "/", "s", "u", "b", "s", "a", "m", "p", "l", "e", "/">>
\* 'html/xssed/full/'
path_xssed ==
    <<"h", "t", "m", "l", "/", "x", "s", "s", "e", "d", "/", "f", "u", "l", "l", "/">>
\* 'html/randomsample', '/full/', '/', 'full/', 'html/xssed/'
Str_html_randomsample ==
    <<"h", "t", "m", "l", "/", "r", "a", "n", "d", "o", "m", "s", "a", "m", "p", "l", "e">>
Str_slash_full_slash == <<"/", "f", "u", "l", "l", "/">>
Str_slash == <<"/">>
Str_full_slash == <<"f", "u", "l", "l", "/">>
Str_html_xssed ==
    <<"h", "t", "m", "l", "/", "x", "s", "s", "e", "d", "/">>
\* the names of the files of the model
Name_b1 == <<"b", "1">>
Name_x1 == <<"x", "1">>
Name_x2 == <<"x", "2">>

\* file_path before its first assignment
Unbound == <<"<unbound>">>

StartsWith(string, prefix) ==
    Len(string) >= Len(prefix) /\ SubSeq(string, 1, Len(prefix)) = prefix
Drop(string, n) == SubSeq(string, n + 1, Len(string))

RECURSIVE ReSubRandomsample(_)
\* re.sub(r'html/randomsample(/full)?/', path_randomwalk, string): every match,
\* from left to right, the optional group taken when the match can go on after it
ReSubRandomsample(string) ==
    IF string = <<>> THEN <<>>
    ELSE IF StartsWith(string, Str_html_randomsample \o Str_slash_full_slash)
    THEN path_randomwalk
         \o ReSubRandomsample(Drop(string, Len(Str_html_randomsample \o Str_slash_full_slash)))
    ELSE IF StartsWith(string, Str_html_randomsample \o Str_slash)
    THEN path_randomwalk
         \o ReSubRandomsample(Drop(string, Len(Str_html_randomsample \o Str_slash)))
    ELSE <<Head(string)>> \o ReSubRandomsample(Tail(string))

\* lines 283-324 on a URL without percent escape, quote, angle bracket, dot or
\* any of the substrings looked for: the length is the only feature that varies
parse_url(string) ==
    [url_length |-> Len(string),
     url_duplicated_characters |-> FALSE,
     url_special_characters |-> FALSE,
     url_script_tag |-> FALSE,
     url_cookie |-> FALSE,
     url_redirection |-> FALSE,
     url_number_keywords |-> 0,
     url_number_domain |-> 0]

\* the documents of the files of the model
Content(name) ==
    CASE name = Name_b1 -> <<El("div", <<<<"onclick", Src_cookie>>>>, NoString)>>
      [] name = Name_x1 -> <<El("script", <<>>, Text(Src_alert))>>
      [] name = Name_x2 -> <<El("a", <<<<"href", Val_js_alert>>>>, NoString),
                             El("script", <<>>, Text(Src_function))>>

\* a file is present, absent, or listed by listdir and gone when it is opened
FileStates == {"present", "absent", "vanished"}

\* listdir(dir) of one of the two directories: disk maps the names to their states
ListDir(disk) == {n \in DOMAIN disk : disk[n] \in {"present", "vanished"}}
\* open(filename) inside parse_html, for a file name under the directory dir
OpenFile(disk, filename, dir) ==
    IF /\ StartsWith(filename, dir)
       /\ Drop(filename, Len(dir)) \in DOMAIN disk
       /\ disk[Drop(filename, Len(dir))] = "present"
    THEN HtmlFile(Content(Drop(filename, Len(dir))))
    ELSE Missing

RECURSIVE Zeros(_)
Zeros(n) == IF n = 0 THEN "" ELSE "0" \o Zeros(n - 1)
\* the URLs of the entries of a manifest differ in length: 1, 10, 100, ...
BenignEntry(i, path) ==
    [url |-> "http://benign/1" \o Zeros(i - 1), file_path |-> path]
XssedEntry(i, files) ==
    [url |-> "http://xssed/1" \o Zeros(i - 1), files |-> files, category |-> "XSS"]

\* page['file_path'] as the spider wrote it, before and after commit b651f88
BenignPaths ==
    {Str_html_randomsample \o Str_slash_full_slash \o Name_b1,
     Str_html_randomsample \o Str_slash \o Name_b1,
     path_randomwalk \o Name_b1}
\* page['files']: no downloaded file, or one
XssedFiles ==
    {<<>>, <<[path |-> Str_full_slash \o Name_x1]>>, <<[path |-> Str_full_slash \o Name_x2]>>}

Envs ==
    {[data_rw |-> [i \in 1..Len(rw) |-> BenignEntry(i, rw[i])],
      data_xssed |-> [i \in 1..Len(xs) |-> XssedEntry(i, xs[i])],
      disk_rw |-> drw, disk_xssed |-> dxs] :
        rw \in UNION {[1..n -> BenignPaths] : n \in 0..MaxBenign},
        xs \in UNION {[1..n -> XssedFiles] : n \in 0..MaxXssed},
        drw \in [{Name_b1} -> FileStates],
        dxs \in [{Name_x1, Name_x2} -> FileStates]}

files_randomwalk == {path_randomwalk \o n : n \in ListDir(menv.disk_rw)}
files_xssed == {Str_full_slash \o n : n \in ListDir(menv.disk_xssed)}

\* features_page = {**feature_class, **features_url, **features_html}
Row(class, features_url, features_html) ==
    Update(Update([class |-> class], features_url), features_html)

MainInit ==
    /\ menv \in Envs
    /\ mpc = "start"
    /\ mi = 1
    /\ file_path = Unbound
    /\ mdata = <<>>
    /\ JsIdle
    /\ HtmlIdle

\* lines 348-355: printProgressBar(0, number_pages_total) divides by the number of
\* entries of randomwalk.json: ZeroDivisionError when there is none
MainStart ==
    /\ mpc = "start"
    /\ mpc' = IF Len(menv.data_rw) = 0 THEN "crashed" ELSE "benign"
    /\ UNCHANGED <<mi, file_path, mdata, menv, jsVars, htmlVars>>

\* lines 356-365: the file is not listed, or parse_html returns None
BenignSkip ==
    /\ mpc = "benign"
    /\ mi <= Len(menv.data_rw)
    /\ LET path == ReSubRandomsample(menv.data_rw[mi].file_path)
       IN  /\ \/ path \notin files_randomwalk
              \/ parse_html(OpenFile(menv.disk_rw, path, path_randomwalk)) = None
           /\ file_path' = path
    /\ mi' = mi + 1
    /\ UNCHANGED <<mpc, mdata, menv, jsVars, htmlVars>>

\* lines 356-369
BenignAppend ==
    /\ mpc = "benign"
    /\ mi <= Len(menv.data_rw)
    /\ LET path == ReSubRandomsample(menv.data_rw[mi].file_path)
           features_html == parse_html(OpenFile(menv.disk_rw, path, path_randomwalk))
       IN  /\ path \in files_randomwalk
           /\ features_html # None
           /\ file_path' = path
           /\ mdata' = Append(mdata, Row(0, parse_url(menv.data_rw[mi].url), features_html))
    /\ mi' = mi + 1
    /\ UNCHANGED <<mpc, menv, jsVars, htmlVars>>

\* lines 373-376: the first loop is over
BenignEnd ==
    /\ mpc = "benign"
    /\ mi > Len(menv.data_rw)
    /\ mpc' = "xssed"
    /\ mi' = 1
    /\ UNCHANGED <<file_path, mdata, menv, jsVars, htmlVars>>

\* lines 378-384: file_path after the try statement; on IndexError it keeps the
\* value it had, which the first loop has bound
XssedFilePath ==
    IF menv.data_xssed[mi].files # <<>> THEN menv.data_xssed[mi].files[1].path
    ELSE file_path

\* lines 377-394: the file is not listed, or parse_html returns None
XssedSkip ==
    /\ mpc = "xssed"
    /\ mi <= Len(menv.data_xssed)
    /\ \/ XssedFilePath \notin files_xssed
       \/ parse_html(OpenFile(menv.disk_xssed, Str_html_xssed \o XssedFilePath,
                              path_xssed)) = None
    /\ file_path' = XssedFilePath
    /\ mi' = mi + 1
    /\ UNCHANGED <<mpc, mdata, menv, jsVars, htmlVars>>

\* lines 377-396
XssedAppend ==
    /\ mpc = "xssed"
    /\ mi <= Len(menv.data_xssed)
    /\ XssedFilePath \in files_xssed
    /\ LET features_html ==
               parse_html(OpenFile(menv.disk_xssed, Str_html_xssed \o XssedFilePath,
                                   path_xssed))
       IN  /\ features_html # None
           /\ mdata' = Append(mdata, Row(1, parse_url(menv.data_xssed[mi].url), features_html))
    /\ file_path' = XssedFilePath
    /\ mi' = mi + 1
    /\ UNCHANGED <<mpc, menv, jsVars, htmlVars>>

\* line 400 and write_csv: data[0] of an empty list raises IndexError
WriteCsv ==
    /\ mpc = "xssed"
    /\ mi > Len(menv.data_xssed)
    /\ mpc' = IF mdata = <<>> THEN "crashed" ELSE "written"
    /\ UNCHANGED <<mi, file_path, mdata, menv, jsVars, htmlVars>>

MainNext ==
    \/ MainStart
    \/ BenignSkip \/ BenignAppend \/ BenignEnd
    \/ XssedSkip \/ XssedAppend \/ WriteCsv

SpecMain == MainInit /\ [][MainNext]_vars

\* the three processes, each started on its own
Init == JsInit \/ HtmlInit \/ MainInit
Next == JsNext \/ HtmlNext \/ MainNext
Spec == Init /\ [][Next]_vars

-----------------------------------------------------------------------------
(* Properties of main (SpecMain) *)

\* the HTML document of a benign entry can be located: listed and opened
BenignLocated(entry) ==
    /\ ReSubRandomsample(entry.file_path) \in files_randomwalk
    /\ OpenFile(menv.disk_rw, ReSubRandomsample(entry.file_path), path_randomwalk) # Missing
\* the HTML document of an xssed entry can be located: a downloaded file, listed
\* and opened
XssedLocated(entry) ==
    /\ entry.files # <<>>
    /\ entry.files[1].path \in files_xssed
    /\ OpenFile(menv.disk_xssed, Str_html_xssed \o entry.files[1].path, path_xssed) # Missing

\* the rows of a class made with the URL features of an entry
RowsOf(class, entry) ==
    {r \in 1..Len(mdata) :
        /\ mdata[r]["class"] = class
        /\ \A k \in DOMAIN parse_url(entry.url) : mdata[r][k] = parse_url(entry.url)[k]}

\* C6: an entry of either manifest whose HTML document cannot be located (absent
\* file, or an xssed entry without downloaded file) gets no row.
C6_NoRowWithoutDocument ==
    /\ \A i \in 1..Len(menv.data_rw) :
          ~BenignLocated(menv.data_rw[i]) => RowsOf(0, menv.data_rw[i]) = {}
    /\ \A i \in 1..Len(menv.data_xssed) :
          ~XssedLocated(menv.data_xssed[i]) => RowsOf(1, menv.data_xssed[i]) = {}

=============================================================================
